---- MODULE Spec2Model ----
(***************************************************************************)
(* odelay (src/pycse.py, lines 55-201): integration of an ODE over a grid  *)
(* with zero-crossing events, secant refinement of each detected crossing, *)
(* direction filtering and early return on a terminal event.               *)
(*                                                                         *)
(* Numbers are exact rationals <<n, d>> in lowest terms with d > 0.  The   *)
(* ODE right-hand sides are constants, so the step integrator is exact:    *)
(* odeint(func, f1, [x1, x2]) = f1 + func * (x2 - x1).  Event values are   *)
(* polynomials of degree <= 2 in the state.  Python indices (from 0) are   *)
(* kept; At(s, n) reads the Python element s[n].                           *)
(***************************************************************************)
EXTENDS Integers, Sequences, FiniteSets, TLC

\* ---------------------------------------------------------------- bounds
MaxGrid == 4
MaxEvents == 2

\* while k < 100 (line 124)
MaxIterations == 100

\* ------------------------------------------------------ float arithmetic
\* Each operation binds its operands once (x \in {a}), so that an operand
\* is evaluated once however often the operation reads it.
RECURSIVE GCD(_, _)
GCD(a, b) == IF b = 0 THEN a ELSE GCD(b, a % b)

IAbs(n) == IF n < 0 THEN -n ELSE n

\* n / d in lowest terms, d # 0
Rat(n, d) ==
    CHOOSE r \in { <<(IF dd < 0 THEN -nn ELSE nn) \div GCD(IAbs(nn), IAbs(dd)),
                     IAbs(dd) \div GCD(IAbs(nn), IAbs(dd))>> :
                   nn \in {n}, dd \in {d} } : TRUE

Zero == <<0, 1>>
RInt(n) == <<n, 1>>
RAdd(a, b) ==
    CHOOSE r \in { Rat(x[1] * y[2] + y[1] * x[2], x[2] * y[2]) :
                   x \in {a}, y \in {b} } : TRUE
RNeg(a) == CHOOSE r \in { <<-x[1], x[2]>> : x \in {a} } : TRUE
RSub(a, b) == RAdd(a, RNeg(b))
RMul(a, b) ==
    CHOOSE r \in { Rat(x[1] * y[1], x[2] * y[2]) : x \in {a}, y \in {b} } : TRUE
\* defined for b # 0 only; the caller tests b first (see ZeroSlope)
RDiv(a, b) ==
    CHOOSE r \in { Rat(x[1] * y[2], x[2] * y[1]) : x \in {a}, y \in {b} } : TRUE
RLt(a, b) == \E x \in {a}, y \in {b} : x[1] * y[2] < y[1] * x[2]
RGt(a, b) == RLt(b, a)
RAbs(a) == CHOOSE r \in { <<IAbs(x[1]), x[2]>> : x \in {a} } : TRUE

\* Python s[n], n >= 0
At(s, n) == s[n + 1]
\* Python s[-1] and s[-2]
Last(s) == s[Len(s)]
Prev(s) == s[Len(s) - 1]

\* ---------------------------------------------------------------- inputs
\* func: the constant right-hand sides dy/dx = c
Funcs == {RInt(1), RInt(2)}

\* TOLERANCE: one finer and one coarser than the grid spacing
Tolerances == {<<1, 2>>, <<3, 1>>}

\* the uniform grid 0, 2, 4, ... of n points
Uniform(n) == [p \in 1..n |-> RInt(2 * (p - 1))]
\* g with the points p and p+1 exchanged: a grid that is not monotonic
Swapped(g, p) ==
    [q \in 1..Len(g) |-> IF q = p THEN g[p + 1] ELSE IF q = p + 1 THEN g[p] ELSE g[q]]

Grids ==
    {Uniform(n) : n \in 0..MaxGrid}
    \cup {Swapped(Uniform(n), 1) : n \in 2..MaxGrid}

\* value(Y) = c2 * Y^2 + c1 * Y + c0
EventForms ==
    { <<0, -4, 9>>,     \* affine, decreasing, root at Y = 9/4
      <<1, -3, 1>> }    \* Y^2 - 3Y + 1: crosses zero down, then up

Directions == {-1, 0, 1}

\* the event functions of one call share their direction filter
EventFns(d) == [form : EventForms, isterminal : BOOLEAN, direction : {d}]

EventLists ==
    UNION {[1..n -> EventFns(d)] : n \in 0..MaxEvents, d \in Directions}

StrictlyMonotonic(g) ==
    \/ \A p \in 1..(Len(g) - 1) : RLt(g[p], g[p + 1])
    \/ \A p \in 1..(Len(g) - 1) : RGt(g[p], g[p + 1])

\* ------------------------------------------------------------ callbacks
\* event(Y, x) -> value (the flags are the event's own, see EventFns)
EventValue(ev, Y, x) ==
    CHOOSE r \in { RAdd(RAdd(RMul(RInt(ev.form[1]), RMul(v, v)),
                             RMul(RInt(ev.form[2]), v)),
                        RInt(ev.form[3])) : v \in {Y} } : TRUE

\* odeint(func, f1, [x1, x2])[-1]: the exact solution of dy/dx = c
odeint(c, f1, x1, x2) == RAdd(f1, RMul(c, RSub(x2, x1)))

VARIABLES
    func, y0, xspan, events, TOLERANCE,   \* the arguments of the call
    pc,                                    \* position in odelay
    X, sol, TE, YE, IE,                    \* the lists returned
    e,                                     \* e[j][n]: the event matrix
    i, j,                                  \* the loop indices
    isterminal, direction,                 \* flags of the last event call
    xLt, fLt, eLt, xPt, fPt, ePt,          \* the bracket
    k, ISTERMINAL,
    nonfinite,                             \* a bracket endpoint is inf or nan
    calls,                                 \* trial-point odeint calls of this refinement
    evaluated                              \* <<j, n>>: event j was called at sample n

args == <<func, y0, xspan, events, TOLERANCE>>
lists == <<X, sol, TE, YE, IE>>
bracket == <<xLt, fLt, eLt, xPt, fPt, ePt>>
vars == <<func, y0, xspan, events, TOLERANCE, pc, X, sol, TE, YE, IE, e, i, j,
          isterminal, direction, xLt, fLt, eLt, xPt, fPt, ePt, k, ISTERMINAL,
          nonfinite, calls, evaluated>>

Init ==
    /\ func \in Funcs
    /\ y0 = Zero
    /\ xspan \in Grids
    /\ events \in EventLists
    /\ TOLERANCE \in Tolerances
    /\ pc = "start"
    /\ X = <<>> /\ sol = <<>> /\ TE = <<>> /\ YE = <<>> /\ IE = <<>>
    /\ e = <<>>
    /\ i = 0 /\ j = 0
    /\ isterminal = FALSE /\ direction = 0
    /\ xLt = Zero /\ fLt = Zero /\ eLt = Zero
    /\ xPt = Zero /\ fPt = Zero /\ ePt = Zero
    /\ k = 0 /\ ISTERMINAL = FALSE
    /\ nonfinite = FALSE
    /\ calls = 0
    /\ evaluated = {}

\* ------------------------------------------------------------ operations
\* xspan[0:-2] (line 90): the grid points the stepping loop enumerates
StepGrid == SubSeq(xspan, 1, Len(xspan) - 2)

\* the flags the last call of an event function left in isterminal, direction
FlagsAfter(evs, old, field) ==
    IF Len(evs) = 0 THEN old ELSE
    IF field = "isterminal" THEN Last(evs).isterminal ELSE Last(evs).direction

\* lines 75-87: xspan[0] raises IndexError on an empty grid; otherwise the
\* lists are started and column 0 of the event matrix is filled
Start ==
    /\ pc = "start"
    /\ IF Len(xspan) = 0
       THEN /\ pc' = "raised"
            /\ UNCHANGED <<lists, e, isterminal, direction>>
       ELSE /\ X' = <<At(xspan, 0)>>
            /\ sol' = <<y0>>
            /\ TE' = <<>> /\ YE' = <<>> /\ IE' = <<>>
            /\ e' = [jj \in 0..(Len(events) - 1) |->
                       [n \in 0..(Len(xspan) - 1) |->
                          IF n = 0 THEN EventValue(At(events, jj), y0, At(xspan, 0))
                          ELSE Zero]]
            /\ isterminal' = FlagsAfter(events, isterminal, "isterminal")
            /\ direction' = FlagsAfter(events, direction, "direction")
            /\ pc' = "step"
    /\ UNCHANGED <<args, i, j, bracket, k, ISTERMINAL, nonfinite, calls, evaluated>>

\* lines 90-102: one grid step, from xspan[i] to xspan[i + 1]
GridStep ==
    /\ pc = "step"
    /\ i < Len(StepGrid)
    /\ LET x1 == At(StepGrid, i)
           x2 == At(xspan, i + 1)
           f1 == At(sol, i)
           f2 == odeint(func, f1, x1, x2)
       IN  /\ X' = Append(X, x2)
           /\ sol' = Append(sol, f2)
    /\ j' = 0
    /\ pc' = "events"
    /\ UNCHANGED <<args, TE, YE, IE, e, i, isterminal, direction, bracket, k,
                   ISTERMINAL, nonfinite, calls, evaluated>>

\* line 201: the grid loop is exhausted
Return ==
    /\ pc = "step"
    /\ i >= Len(StepGrid)
    /\ pc' = "done"
    /\ UNCHANGED <<args, lists, e, i, j, isterminal, direction, bracket, k,
                   ISTERMINAL, nonfinite, calls, evaluated>>

\* line 108
SignChange(eNew, eOld) == RLt(RMul(eNew, eOld), Zero)

\* lines 105-122: event j at the new sample; a sign change opens a bracket
CheckEvent ==
    /\ pc = "events"
    /\ j < Len(events)
    /\ LET val == EventValue(At(events, j), At(sol, i + 1), At(X, i + 1))
       IN  /\ e' = [e EXCEPT ![j][i + 1] = val]
           /\ isterminal' = At(events, j).isterminal
           /\ direction' = At(events, j).direction
           /\ evaluated' = evaluated \cup {<<j, i + 1>>}
           /\ IF SignChange(val, e[j][i])
              THEN /\ xLt' = Last(X) /\ fLt' = Last(sol) /\ eLt' = val
                   /\ xPt' = Prev(X) /\ fPt' = Prev(sol) /\ ePt' = e[j][i]
                   /\ k' = 0
                   /\ ISTERMINAL' = FALSE
                   /\ calls' = 0
                   /\ nonfinite' = FALSE
                   /\ pc' = "refine"
                   /\ j' = j
              ELSE /\ j' = j + 1
                   /\ pc' = "events"
                   /\ UNCHANGED <<bracket, k, ISTERMINAL, calls, nonfinite>>
    /\ UNCHANGED <<args, lists, i>>

\* line 105 exhausted: back to line 90 with the next i
NextGridPoint ==
    /\ pc = "events"
    /\ j >= Len(events)
    /\ i' = i + 1
    /\ pc' = "step"
    /\ UNCHANGED <<args, lists, e, j, isterminal, direction, bracket, k,
                   ISTERMINAL, nonfinite, calls, evaluated>>

\* ------------------------------------------------------------ refinement
\* line 124
LoopRuns == k < MaxIterations

\* line 125
Resolved == RLt(RAbs(RSub(xLt, xPt)), TOLERANCE)

\* line 153: m is zero exactly when its numerator is (xPt # xLt when the
\* bracket is not resolved); line 157 then divides by it
ZeroSlope == RSub(ePt, eLt) = Zero

\* lines 153-157, for a slope that is not zero
Slope == RDiv(RSub(ePt, eLt), RSub(xPt, xLt))
NewX == RAdd(RDiv(RNeg(ePt), Slope), xPt)

\* line 160
NoProgress == RLt(RAbs(RSub(NewX, xPt)), TOLERANCE)

\* COLLECTEVENT with the two comparisons exchanged
COLLECTEVENT_Swapped(dir, eNew, eOld) ==
    IF dir = 0 THEN TRUE
    ELSE IF RLt(eNew, eOld) /\ dir = 1 THEN TRUE
    ELSE IF RGt(eNew, eOld) /\ dir = -1 THEN TRUE
    ELSE FALSE

\* lines 131-140, with e[j, i + 1] and e[j, i] as eNew and eOld
COLLECTEVENT(dir, eNew, eOld) ==
    IF dir = 0 THEN TRUE
    ELSE IF RGt(eNew, eOld) /\ dir = 1 THEN TRUE
    ELSE IF RLt(eNew, eOld) /\ dir = -1 THEN TRUE
    ELSE FALSE

\* TerminalList without the del of line 195
TerminalList_NoDel(s, last) == Append(s, last)

\* lines 195-197: del s[-1], then s.append(last)
TerminalList(s, last) == Append(SubSeq(s, 1, Len(s) - 1), last)

\* lines 193-199 after the while loop: return on a terminal event, else go
\* on with the next event of this grid step
AfterLoop(isTerm, te, ye) ==
    IF isTerm
    THEN /\ X' = TerminalList(X, Last(te))
         /\ sol' = TerminalList(sol, Last(ye))
         /\ pc' = "done"
         /\ j' = j
    ELSE /\ X' = X /\ sol' = sol
         /\ pc' = "events"
         /\ j' = j + 1

\* line 124 false: the loop ends at the cap with ISTERMINAL still False
LoopExit ==
    /\ pc = "refine"
    /\ ~LoopRuns
    /\ AfterLoop(ISTERMINAL, TE, YE)
    /\ UNCHANGED <<args, TE, YE, IE, e, i, isterminal, direction, bracket, k,
                   ISTERMINAL, nonfinite, calls, evaluated>>

\* lines 125-151, then 193-199: the bracket is narrower than TOLERANCE
RefineResolved ==
    /\ pc = "refine"
    /\ LoopRuns /\ ~nonfinite /\ Resolved
    /\ LET collect == COLLECTEVENT(direction, e[j][i + 1], e[j][i])
           te == IF collect THEN Append(TE, xLt) ELSE TE
           ye == IF collect THEN Append(YE, fLt) ELSE YE
           term == IF collect THEN isterminal ELSE FALSE
       IN  /\ TE' = te
           /\ YE' = ye
           /\ IE' = IF collect THEN Append(IE, j) ELSE IE
           /\ ISTERMINAL' = term
           /\ AfterLoop(term, te, ye)
    /\ UNCHANGED <<args, e, i, isterminal, direction, bracket, k, nonfinite,
                   calls, evaluated>>

\* NoProgressXLt with the assignment of line 162 left out
NoProgressXLt_Kept(old, new_x) == old

\* line 162: xLt = new_x
NoProgressXLt(old, new_x) == new_x

\* lines 160-163: the estimate is within TOLERANCE of xPt; only xLt moves
\* and k is not incremented
RefineNoProgress ==
    /\ pc = "refine"
    /\ LoopRuns /\ ~nonfinite /\ ~Resolved /\ ~ZeroSlope
    /\ NoProgress
    /\ xLt' = NoProgressXLt(xLt, NewX)
    /\ UNCHANGED <<args, pc, lists, e, i, j, isterminal, direction, fLt, eLt,
                   xPt, fPt, ePt, k, ISTERMINAL, nonfinite, calls, evaluated>>

\* line 189
NextK(n) == n + 1

\* lines 165-189: the state and the event value at the estimate replace one
\* end of the bracket
RefineTrial ==
    /\ pc = "refine"
    /\ LoopRuns /\ ~nonfinite /\ ~Resolved /\ ~ZeroSlope
    /\ ~NoProgress
    /\ LET new_x == NewX
           new_f == odeint(func, fPt, xPt, new_x)
           new_e == EventValue(At(events, j), new_f, new_x)
       IN  /\ isterminal' = At(events, j).isterminal
           /\ direction' = At(events, j).direction
           /\ IF RGt(RMul(eLt, new_e), Zero)
              THEN /\ xPt' = new_x /\ fPt' = new_f /\ ePt' = new_e
                   /\ UNCHANGED <<xLt, fLt, eLt>>
              ELSE /\ xLt' = new_x /\ fLt' = new_f /\ eLt' = new_e
                   /\ UNCHANGED <<xPt, fPt, ePt>>
    /\ calls' = calls + 1
    /\ k' = NextK(k)
    /\ UNCHANGED <<args, pc, lists, e, i, j, ISTERMINAL, nonfinite, evaluated>>

\* lines 153-189 with ePt = eLt: m is 0.0 and -ePt / m is a division by zero.
\* m is a numpy float (e[j, i] is, and so is every new_x), so the division
\* warns and yields +-inf (ePt is never 0): new_x is not finite, the test of
\* line 160 is False, and odeint and the event are called at new_x
RefineZeroSlope ==
    /\ pc = "refine"
    /\ LoopRuns /\ ~nonfinite /\ ~Resolved /\ ZeroSlope
    /\ nonfinite' = TRUE
    /\ isterminal' = At(events, j).isterminal
    /\ direction' = At(events, j).direction
    /\ calls' = calls + 1
    /\ k' = NextK(k)
    /\ UNCHANGED <<args, pc, lists, e, i, j, bracket, ISTERMINAL, evaluated>>

\* lines 124-189 once an endpoint is inf or nan: abs(xLt - xPt) is inf or
\* nan, so line 125 is False; m is 0.0 or nan, so new_x is inf or nan and
\* line 160 is False; new_x replaces an endpoint again.  The values of the
\* bracket are no longer read by anything but this loop.
RefineNonFinite ==
    /\ pc = "refine"
    /\ LoopRuns /\ nonfinite
    /\ isterminal' = At(events, j).isterminal
    /\ direction' = At(events, j).direction
    /\ calls' = calls + 1
    /\ k' = NextK(k)
    /\ UNCHANGED <<args, pc, lists, e, i, j, bracket, ISTERMINAL, nonfinite,
                   evaluated>>

Next ==
    \/ Start
    \/ GridStep
    \/ Return
    \/ CheckEvent
    \/ NextGridPoint
    \/ LoopExit
    \/ RefineResolved
    \/ RefineNoProgress
    \/ RefineTrial
    \/ RefineZeroSlope
    \/ RefineNonFinite

Spec == Init /\ [][Next]_vars

\* The well-formed calls: a strictly monotonic grid, and events that all have
\* direction 0, the docstring's default (every resolved crossing is recorded).
FairInit ==
    /\ Init
    /\ StrictlyMonotonic(xspan)
    /\ \A n \in 1..Len(events) : events[n].direction = 0

\* odelay is one sequential call: whenever a next statement exists it runs
FairSpec == FairInit /\ [][Next]_vars /\ WF_vars(Next)

\* ---------------------------------------------------------------- claims
\* the sample the step integrator yields at grid point n, stepping along
\* the grid from (xspan[0], y0)
RECURSIVE GridState(_)
GridState(n) ==
    IF n = 0 THEN y0
    ELSE odeint(func, GridState(n - 1), At(xspan, n - 1), At(xspan, n))

\* the state of the trajectory through (xspan[0], y0) at x
StateAt(x) == odeint(func, y0, At(xspan, 0), x)

\* the direction filter as documented (lines 70-72) for the sign change of
\* event jj between the samples n and n + 1
DirectionAccepts(jj, n) ==
    LET d == At(events, jj).direction
    IN  \/ d = 0
        \/ d = 1 /\ RGt(e[jj][n + 1], e[jj][n])
        \/ d = -1 /\ RLt(e[jj][n + 1], e[jj][n])

\* the loop is at line 125 with a bracket narrower than TOLERANCE
AtResolved == pc = "refine" /\ LoopRuns /\ ~nonfinite /\ Resolved

\* C1: with no terminal event accepted, a grid of n >= 2 points yields a
\* trajectory whose x-coordinates are exactly the n grid points, with the
\* integrator's state at each; a two-point grid yields two samples.
C1_FullGridTrajectory ==
    (pc = "done" /\ ~ISTERMINAL /\ Len(xspan) >= 2)
        => /\ X = xspan
           /\ Len(sol) = Len(xspan)
           /\ \A n \in 0..(Len(xspan) - 1) : At(sol, n) = GridState(n)

\* C2: when the crossing of event j found at grid step i -> i+1 is accepted
\* and the event is terminal, the call returns at once: the trajectory has
\* i+2 samples, the first i+1 are the grid samples, the last one is the last
\* event record, whose index is j; no event after j was evaluated at sample
\* i+1; and nothing happens after the return.
C2_TerminalReturn ==
    [][ /\ pc # "done"
        /\ (AtResolved /\ DirectionAccepts(j, i) /\ At(events, j).isterminal)
              => /\ pc' = "done"
                 /\ Len(X') = i + 2 /\ Len(sol') = i + 2
                 /\ \A n \in 0..i : /\ At(X', n) = At(xspan, n)
                                    /\ At(sol', n) = GridState(n)
                 /\ Len(TE') = Len(TE) + 1
                 /\ Last(X') = Last(TE') /\ Last(sol') = Last(YE')
                 /\ Last(IE') = j
                 /\ \A jj \in (j + 1)..(Len(events) - 1) :
                        <<jj, i + 1>> \notin evaluated'
      ]_vars

\* C2 witness: a terminal return at a grid step that is not the last one,
\* with a later event left unevaluated and an earlier record in the log.
C2_Witness ==
    /\ pc = "done" /\ ISTERMINAL
    /\ i + 1 < Len(StepGrid)
    /\ j + 1 < Len(events)
    /\ Last(X) = Last(TE)

C4_AffineTwoIterations ==
    (pc = "refine" /\ ~nonfinite /\ At(events, j).form[1] = 0) => k <= 2

\* C5: a grid of fewer than two points, or one that is not strictly
\* monotonic, is rejected before any grid step or event call at a stepped
\* point, and no trajectory is returned.
C5_MalformedRejected ==
    (Len(xspan) < 2 \/ ~StrictlyMonotonic(xspan))
        => (pc # "done" /\ Len(X) < 2 /\ evaluated = {})

\* C6: at every iteration of the refinement loop the event values at the
\* two ends of the bracket have opposite signs or one is zero.
C6_BracketRetained ==
    (pc = "refine" /\ ~nonfinite) => ~RGt(RMul(ePt, eLt), Zero)

\* C7: a refinement makes at most 100 trial-point integrator calls, and the
\* call on a grid that has a first point returns.
C7_RefinementTerminates ==
    /\ [](calls <= MaxIterations)
    /\ (Len(xspan) >= 1) => <>(pc = "done")

\* C7 witness: the call has returned after a refinement that used all 100
\* trial-point calls, with the bracket still finite.
C7_Witness ==
    pc = "done" /\ calls = MaxIterations /\ k = MaxIterations /\ ~nonfinite

\* C8: when the refinement of a sign change of event j-1 ends at the cap
\* and the event's direction is 0, the right end of the bracket is recorded.
C8_CapStillRecords ==
    ( /\ pc = "events" /\ j >= 1
      /\ SignChange(e[j - 1][i + 1], e[j - 1][i])
      /\ k = MaxIterations /\ ~nonfinite
      /\ At(events, j - 1).direction = 0 )
        => /\ TE # <<>>
           /\ Last(IE) = j - 1
           /\ Last(TE) = xLt /\ Last(YE) = fLt

\* C9: no division by a zero slope is executed and no trial point is
\* non-finite.
C9_NoDivisionByZero == ~nonfinite

\* C10: the right end (xLt, fLt, eLt) of the bracket is one point of the
\* trajectory, and so is every event record: YE[n] is the state at TE[n].
C10_RecordConsistent ==
    /\ (pc = "refine" /\ ~nonfinite)
          => /\ fLt = StateAt(xLt)
             /\ eLt = EventValue(At(events, j), fLt, xLt)
    /\ \A n \in 1..Len(TE) : YE[n] = StateAt(TE[n])

====
